---- MODULE Spec2Model ----
(***************************************************************************)
(* cargo-cmd: resolution of a requested command (and its pre/post hooks)   *)
(* from Cargo.toml, and the sequenced execution of the resolved commands.  *)
(* Model of src/main.rs.                                                   *)
(***************************************************************************)
EXTENDS Integers, Sequences, FiniteSets, TLC

(* ---------------------------- bounds ----------------------------------- *)

\* child exit codes are drawn from 0..MaxExitCode
MaxExitCode == 3
\* signal numbers are drawn from 2..MaxSignal+1
MaxSignal == 2
\* the trailing arguments are at most MaxRest tokens
MaxRest == 1

(* ------------------------- input universes ----------------------------- *)

\* keys a commands table may hold
Keys == {"pretest", "test", "posttest", "build"}
\* shell command strings a commands table may hold
CmdStrings == {"a", "b"}
\* command names given on the command line
Requested == {"test", "pretest"}
\* tokens of the trailing arguments
RestTokens == {"x"}

EmptyMap == [k \in {} |-> ""]

\* HashMap<String, String>
Tables == UNION {[D -> CmdStrings] : D \in SUBSET Keys}

\* one of the sections [package] / [workspace] of the document:
\*   absent      the section is not in the document
\*   nometadata  the section is there, without a metadata table
\*   nocommands  the section has a metadata table without a commands table
\*   commands    the section has metadata.commands
ScopeOf(T) == [kind |-> "commands", commands |-> T]

NoTable(kind) == [kind |-> kind, commands |-> EmptyMap]

Scopes == {NoTable("absent"), NoTable("nometadata"), NoTable("nocommands")}
              \cup {ScopeOf(T) : T \in Tables}

\* the file Cargo.toml of the current directory:
\*   file = "missing"     File::open fails
\*   file = "unreadable"  read_to_string fails
\*   file = "ok", syntax = FALSE   the text is not a TOML document
Unusable(file) ==
    [file |-> file, syntax |-> FALSE,
     package |-> NoTable("absent"), workspace |-> NoTable("absent")]

Document(p, w) == [file |-> "ok", syntax |-> TRUE, package |-> p, workspace |-> w]

Manifests == {Unusable("missing"), Unusable("unreadable"), Unusable("ok")}
                 \cup {Document(p, w) : p \in Scopes, w \in Scopes}

RECURSIVE SeqsUpTo(_, _)
SeqsUpTo(S, n) ==
    IF n = 0 THEN {<<>>}
    ELSE LET shorter == SeqsUpTo(S, n - 1)
         IN  shorter \cup {Append(s, t) : s \in shorter, t \in S}

RestArgs == SeqsUpTo(RestTokens, MaxRest)

(* ----------------------------- results --------------------------------- *)

Ok(v) == [ok |-> TRUE, val |-> v, err |-> ""]

Err(msg) == [ok |-> FALSE, val |-> <<>>, err |-> msg]

\* subprocess::ExitStatus
Exited(code) == [kind |-> "Exited", code |-> code]

Signaled(sig) == [kind |-> "Signaled", code |-> sig]

Other(code) == [kind |-> "Other", code |-> code]

Undetermined == [kind |-> "Undetermined", code |-> 0]

ExitStatuses ==
    {Exited(k) : k \in 0..MaxExitCode}
        \cup {Signaled(s) : s \in 2..(MaxSignal + 1)}
        \cup {Other(7), Undetermined}

\* variant: the test of success is inverted
Success_Inverted(exit) == exit # Exited(0)

\* ExitStatus::success
Success(exit) == exit = Exited(0)

\* exit_code as i32, exit_code being a u32
MaxI32 == 2147483647

AsI32(code) == IF code <= MaxI32 THEN code
               ELSE ((code - MaxI32) - MaxI32) - 2

\* the exit status of clap::Error::exit for an error written to stderr
ClapErrorExit == 1

\* the exit status for a child that did not exit normally
GenericFailure == 1

(* ------------------------- Manifest Resolver --------------------------- *)

\* Option<WithMetadata>: a section that is present must hold
\* metadata.commands, both fields being mandatory
SectionDeserializes(scope) == scope.kind \in {"absent", "commands"}

\* toml::from_str::<Cargotoml>
FromStr(doc) ==
    IF doc.syntax /\ SectionDeserializes(doc.package)
                  /\ SectionDeserializes(doc.workspace)
    THEN Ok([package |-> doc.package, workspace |-> doc.workspace])
    ELSE Err("toml")

\* HashMap::extend
Extend(m, n) ==
    [k \in (DOMAIN m) \cup (DOMAIN n) |-> IF k \in DOMAIN n THEN n[k] ELSE m[k]]

get_commands_from_str(cargo_str) ==
    LET cargo_toml == FromStr(cargo_str)
    IN  IF ~cargo_toml.ok
        THEN Err("Could not find commands in Cargo.toml")
        ELSE IF cargo_toml.val.package.kind # "absent"
        THEN Ok(Extend(EmptyMap, cargo_toml.val.package.commands))
        ELSE IF cargo_toml.val.workspace.kind # "absent"
        THEN Ok(Extend(EmptyMap, cargo_toml.val.workspace.commands))
        ELSE Err("Could not find commands in Cargo.toml")

\* variant: the post hook is looked up before the command itself
CandidateNames_PostBeforeMain(command) ==
    <<"pre" \o command, "post" \o command, command>>

\* the candidate names, in the order they are looked up
CandidateNames(command) == <<"pre" \o command, command, "post" \o command>>

NotFoundMessage(command) == "Command \"" \o command \o "\" not found in Cargo.toml"

\* variant: a missing command is reported after the loop, not inside it
RECURSIVE LookupNames_LateError(_, _, _, _, _, _)
LookupNames_LateError(cargo_commands, command, names, i, commands, looked) ==
    IF i > Len(names)
    THEN [result |-> IF command \in DOMAIN cargo_commands
                     THEN Ok(commands)
                     ELSE Err("Command \"" \o command \o "\" not found in Cargo.toml"),
          looked |-> looked]
    ELSE LET name == names[i]
             found == name \in DOMAIN cargo_commands
         IN  LookupNames_LateError(cargo_commands, command, names, i + 1,
                                   IF found
                                   THEN Append(commands, <<name, cargo_commands[name]>>)
                                   ELSE commands,
                                   Append(looked, name))

\* variant: a missing command is skipped like a missing hook
RECURSIVE LookupNames_SkipMissing(_, _, _, _, _, _)
LookupNames_SkipMissing(cargo_commands, command, names, i, commands, looked) ==
    IF i > Len(names)
    THEN [result |-> Ok(commands), looked |-> looked]
    ELSE LET name == names[i]
             found == name \in DOMAIN cargo_commands
         IN  LookupNames_SkipMissing(cargo_commands, command, names, i + 1,
                                     IF found
                                     THEN Append(commands, <<name, cargo_commands[name]>>)
                                     ELSE commands,
                                     Append(looked, name))

\* the loop over names of get_commands, from names[i] on; looked is the
\* sequence of names looked up so far, commands the pairs pushed so far
RECURSIVE LookupNames(_, _, _, _, _, _)
LookupNames(cargo_commands, command, names, i, commands, looked) ==
    IF i > Len(names)
    THEN [result |-> Ok(commands), looked |-> looked]
    ELSE LET name == names[i]
             found == name \in DOMAIN cargo_commands
         IN  IF name = command /\ ~found
             THEN [result |-> Err(NotFoundMessage(command)),
                   looked |-> Append(looked, name)]
             ELSE LookupNames(cargo_commands, command, names, i + 1,
                              IF found
                              THEN Append(commands, <<name, cargo_commands[name]>>)
                              ELSE commands,
                              Append(looked, name))

\* get_commands: result is the Result returned, parsed the Result of
\* get_commands_from_str (Err("") when it is not reached), looked the
\* names looked up in the table
get_commands(file, command) ==
    IF file.file = "missing"
    THEN [result |-> Err("Could not find or open Cargo.toml in the current directory"),
          parsed |-> Err(""), looked |-> <<>>]
    ELSE IF file.file = "unreadable"
    THEN [result |-> Err("Could not read the contents of Cargo.toml"),
          parsed |-> Err(""), looked |-> <<>>]
    ELSE LET cargo_commands == get_commands_from_str(file)
         IN  IF ~cargo_commands.ok
             THEN [result |-> Err(cargo_commands.err),
                   parsed |-> cargo_commands, looked |-> <<>>]
             ELSE LET walk == LookupNames(cargo_commands.val, command,
                                          CandidateNames(command), 1, <<>>, <<>>)
                  IN  [result |-> walk.result, parsed |-> cargo_commands,
                       looked |-> walk.looked]

(* ------------------------ Sequenced Executor --------------------------- *)

\* rest.join(" ")
RECURSIVE Join(_)
Join(rest) ==
    IF Len(rest) = 0 THEN ""
    ELSE IF Len(rest) = 1 THEN rest[1]
    ELSE rest[1] \o " " \o Join(Tail(rest))

\* format!("{} {}", command, rest.join(" "))
CommandLine(cmd, rest) == cmd \o " " \o Join(rest)

LabelLine(name) == "\n[" \o name \o "]"

EchoLine(line) == "> " \o line

Event(kind, text) == [kind |-> kind, text |-> text]

\* sh.join(): the child cannot be launched, or it is launched and waiting
\* on it fails, or it is launched and terminates with a status
JoinResults ==
    {[ok |-> FALSE, spawned |-> s, status |-> Undetermined] : s \in BOOLEAN}
        \cup {[ok |-> TRUE, spawned |-> TRUE, status |-> st] : st \in ExitStatuses}

\* sh.join().unwrap_or(ExitStatus::Exited(0))
UnwrapOrExited0(joined) == IF joined.ok THEN joined.status ELSE Exited(0)

\* the condition under which the loop body calls process::exit(0)
IsLastIndex(index, len) == index = len

\* variant: the label is printed for a single command too
IsMultipleCommands_AtLeastOne(commands) == Len(commands) > 0

\* let is_multiple_commands = commands.len() > 1
IsMultipleCommands(commands) == Len(commands) > 1

\* variant: every failure ends with the generic failure code
ExitCodeFor_AlwaysGeneric(exit) == GenericFailure

\* variant: the number carried by the status is passed on, whatever its kind
ExitCodeFor_CarriedNumber(exit) == AsI32(exit.code)

\* the exit status chosen by the match on a failed exit
ExitCodeFor(exit) ==
    IF exit.kind = "Exited" THEN AsI32(exit.code) ELSE GenericFailure

(* ------------------------------ state ---------------------------------- *)

VARIABLES
    manifest,    \* Cargo.toml of the current directory
    command,     \* cli: the requested command
    rest,        \* cli: the trailing arguments
    pc,          \* position in main: start, loop, exec, spawn, check, exited
    resolved,    \* what get_commands returned, with its lookups
    commands,    \* main: the Command Set
    index,       \* main: enumerate() index of the loop, 0-based
    exit,        \* main: the ExitStatus returned by execute_command
    line,        \* execute_command: the formatted command line
    out,         \* stdout lines of the tool and spawns, in order
    stderr,      \* the message written by unwrap_or_exit
    joins,       \* the results of sh.join(), one per call
    exitCode     \* the tool's exit status, -1 while it runs

vars == <<manifest, command, rest, pc, resolved, commands, index, exit, line,
          out, stderr, joins, exitCode>>

Running == -1

NotResolved == [result |-> Err(""), parsed |-> Err(""), looked |-> <<>>]

Init ==
    /\ manifest \in Manifests
    /\ command \in Requested
    /\ rest \in RestArgs
    /\ pc = "start"
    /\ resolved = NotResolved
    /\ commands = <<>>
    /\ index = 0
    /\ exit = Undetermined
    /\ line = ""
    /\ out = <<>>
    /\ stderr = ""
    /\ joins = <<>>
    /\ exitCode = Running

\* main: unwrap_or_exit(get_commands(&command))
Resolve ==
    /\ pc = "start"
    /\ LET r == get_commands(manifest, command)
       IN  /\ resolved' = r
           /\ IF r.result.ok
              THEN /\ commands' = r.result.val
                   /\ pc' = "loop"
                   /\ UNCHANGED <<stderr, exitCode>>
              ELSE /\ stderr' = r.result.err
                   /\ exitCode' = ClapErrorExit
                   /\ pc' = "exited"
                   /\ UNCHANGED commands
    /\ UNCHANGED <<manifest, command, rest, index, exit, line, out, joins>>

\* main: the head of the for loop and the label; falling out of the loop
\* returns from main
LoopHead ==
    /\ pc = "loop"
    /\ IF index >= Len(commands)
       THEN /\ pc' = "exited"
            /\ exitCode' = 0
            /\ UNCHANGED out
       ELSE /\ pc' = "exec"
            /\ out' = IF IsMultipleCommands(commands)
                      THEN Append(out, Event("label", LabelLine(commands[index + 1][1])))
                      ELSE out
            /\ UNCHANGED exitCode
    /\ UNCHANGED <<manifest, command, rest, resolved, commands, index, exit,
                   line, stderr, joins>>

\* execute_command: format the line and echo it
Echo ==
    /\ pc = "exec"
    /\ line' = CommandLine(commands[index + 1][2], rest)
    /\ out' = Append(out, Event("echo", EchoLine(line')))
    /\ pc' = "spawn"
    /\ UNCHANGED <<manifest, command, rest, resolved, commands, index, exit,
                   stderr, joins, exitCode>>

\* execute_command: Exec::shell(command).join().unwrap_or(Exited(0))
SpawnJoin ==
    /\ pc = "spawn"
    /\ \E joined \in JoinResults :
          /\ joins' = Append(joins, joined)
          /\ out' = IF joined.spawned THEN Append(out, Event("spawn", line)) ELSE out
          /\ exit' = UnwrapOrExited0(joined)
    /\ pc' = "check"
    /\ UNCHANGED <<manifest, command, rest, resolved, commands, index, line,
                   stderr, exitCode>>

\* main: the if/else on exit.success()
CheckExit ==
    /\ pc = "check"
    /\ IF Success(exit)
       THEN IF IsLastIndex(index, Len(commands))
            THEN /\ pc' = "exited"
                 /\ exitCode' = 0
                 /\ UNCHANGED index
            ELSE /\ pc' = "loop"
                 /\ index' = index + 1
                 /\ UNCHANGED exitCode
       ELSE /\ pc' = "exited"
            /\ exitCode' = ExitCodeFor(exit)
            /\ UNCHANGED index
    /\ UNCHANGED <<manifest, command, rest, resolved, commands, exit, line,
                   out, stderr, joins>>

Next == Resolve \/ LoopHead \/ Echo \/ SpawnJoin \/ CheckExit

Spec == Init /\ [][Next]_vars

(* ------------------------- derived quantities -------------------------- *)

\* the commands table the lookup works on
T == resolved.parsed.val

Resolved == pc # "start"

Texts(kind) ==
    LET evs == SelectSeq(out, LAMBDA e : e.kind = kind)
    IN  [i \in 1..Len(evs) |-> evs[i].text]

\* the command line of the i-th entry of the Command Set
LineOf(i) == commands[i][2] \o " " \o Join(rest)

KeptCandidates(c) ==
    SelectSeq(<<"pre" \o c, c, "post" \o c>>, LAMBDA n : n \in DOMAIN T)

NormalFailure(j) == j.ok /\ j.status.kind = "Exited" /\ j.status.code # 0

Abnormal(j) == j.ok /\ j.status.kind # "Exited"

CleanExit(j) == j.ok /\ j.status = Exited(0)

\* the i-th call of join was the last step of the run: nothing was
\* labelled, echoed or spawned after it
StoppedAt(i) ==
    /\ i = Len(joins)
    /\ pc \in {"check", "exited"}
    /\ Len(Texts("echo")) = i
    /\ Len(Texts("label")) <= i
    /\ Len(Texts("spawn")) <= i

(* ------------------------------ claims --------------------------------- *)

\* C1: when the requested name c is a key of the commands table T,
\* get_commands returns the candidates pre<c>, c, post<c>, in that order,
\* that are keys of T, each paired with its value in T: 1 to 3 entries,
\* c always among them, no other key.
C1_ResolvedCommandSet ==
    (Resolved /\ resolved.parsed.ok /\ command \in DOMAIN T) =>
        /\ resolved.result.ok
        /\ LET kept == KeptCandidates(command)
               got == resolved.result.val
           IN  /\ Len(got) = Len(kept)
               /\ Len(got) \in 1..3
               /\ \A i \in 1..Len(got) : got[i] = <<kept[i], T[kept[i]]>>
               /\ \E i \in 1..Len(got) : got[i][1] = command
               /\ \A i \in 1..Len(got) :
                      got[i][1] \in {"pre" \o command, command, "post" \o command}
               /\ ("pre" \o command) \in DOMAIN T => got[1][1] = "pre" \o command
               /\ ("post" \o command) \in DOMAIN T =>
                      got[Len(got)][1] = "post" \o command

C1_Witness ==
    /\ Resolved
    /\ command = "test"
    /\ resolved.parsed.ok
    /\ DOMAIN T = {"pretest", "test", "posttest", "build"}
    /\ Len(resolved.result.val) = 3
    /\ resolved.result.val[3] = <<"posttest", "b">>

\* C2: when the requested name c is not a key of T, get_commands fails with
\* the not-found message naming c, whatever the presence of pre<c> and
\* post<c>; post<c> is not looked up and no command list is returned.
C2_MissingMainIsAnError ==
    (Resolved /\ resolved.parsed.ok /\ command \notin DOMAIN T) =>
        /\ ~resolved.result.ok
        /\ resolved.result.err =
               "Command \"" \o command \o "\" not found in Cargo.toml"
        /\ resolved.result.val = <<>>
        /\ commands = <<>>
        /\ resolved.looked = <<"pre" \o command, command>>

C2_Witness ==
    /\ Resolved
    /\ command = "test"
    /\ resolved.parsed.ok
    /\ DOMAIN T = {"pretest", "posttest"}
    /\ ~resolved.result.ok
    /\ stderr = "Command \"test\" not found in Cargo.toml"

\* C3: when the child of the i-th entry exits normally with a code k # 0,
\* the run stops there: no later entry is labelled, echoed or spawned, and
\* the tool exits with exactly k.
C3_NonZeroExitStopsAndPropagates ==
    \A i \in 1..Len(joins) :
        NormalFailure(joins[i]) =>
            /\ StoppedAt(i)
            /\ pc = "exited" => exitCode = joins[i].status.code

C3_Witness ==
    /\ pc = "exited"
    /\ Len(commands) = 3
    /\ Len(joins) = 1
    /\ joins[1].ok
    /\ joins[1].status = Exited(3)
    /\ exitCode = 3
    /\ Texts("label") = <<LabelLine("pretest")>>

\* C4: when every child exits with status 0, the entries are spawned once
\* each, in Command Set order, entry i+1 after entry i has terminated, and
\* after the last one the tool ends with exit status 0.
C4_AllSucceedRunsAllInOrder ==
    (\A i \in 1..Len(joins) : CleanExit(joins[i])) =>
        /\ Len(joins) <= Len(commands)
        /\ Texts("spawn") = [i \in 1..Len(joins) |-> LineOf(i)]
        /\ pc \in {"loop", "check"} => index = Len(joins) - (IF pc = "check" THEN 1 ELSE 0)
        /\ (pc = "exited" /\ resolved.result.ok) =>
               /\ exitCode = 0
               /\ Len(joins) = Len(commands)

C4_Witness ==
    /\ pc = "exited"
    /\ Len(commands) = 3
    /\ Len(joins) = 3
    /\ \A i \in 1..3 : CleanExit(joins[i])
    /\ exitCode = 0
    /\ rest = <<"x">>

\* C5: when launching or waiting on the subprocess of an entry fails with
\* an I/O error, no later entry is executed and the tool ends with a
\* non-success exit status.
C5_SpawnFailureStopsWithFailure ==
    \A i \in 1..Len(joins) :
        ~joins[i].ok =>
            /\ i = Len(joins)
            /\ pc \in {"check", "exited"}
            /\ pc = "exited" => exitCode # 0

\* C6: when the child of an entry does not exit normally, the run stops
\* there and the tool exits with the generic failure code 1, not the signal
\* number.
C6_AbnormalExitStopsWithGenericCode ==
    \A i \in 1..Len(joins) :
        Abnormal(joins[i]) =>
            /\ StoppedAt(i)
            /\ pc = "exited" => exitCode = 1

C6_Witness ==
    /\ pc = "exited"
    /\ Len(commands) = 2
    /\ Len(joins) = 2
    /\ joins[2].ok
    /\ joins[2].status = Signaled(3)
    /\ exitCode = 1

\* the manifest cannot be read, is not a document, has a commands table in
\* neither scope, or its commands table lacks the requested command
BadManifest ==
    \/ manifest.file # "ok"
    \/ ~manifest.syntax
    \/ /\ manifest.package.kind # "commands"
       /\ manifest.workspace.kind # "commands"
    \/ /\ manifest.package.kind = "commands"
       /\ command \notin DOMAIN manifest.package.commands
    \/ /\ manifest.package.kind # "commands"
       /\ manifest.workspace.kind = "commands"
       /\ command \notin DOMAIN manifest.workspace.commands

\* C7: with such a manifest nothing is ever labelled, echoed or spawned,
\* and the run ends with a message and a non-success exit status.
C7_NoExecutionOnResolutionError ==
    BadManifest =>
        /\ out = <<>>
        /\ joins = <<>>
        /\ pc \in {"start", "exited"}
        /\ pc = "exited" => (exitCode # 0 /\ stderr # "")

C7_Witness ==
    /\ pc = "exited"
    /\ command = "test"
    /\ manifest.package.kind = "commands"
    /\ DOMAIN manifest.package.commands = {"pretest"}
    /\ manifest.workspace.kind = "absent"
    /\ out = <<>>
    /\ exitCode = 1

\* C8: for a manifest with a workspace-scope commands table and no
\* package-scope commands table (package section absent, or present
\* without metadata.commands), get_commands_from_str returns that table.
C8_WorkspaceTableIsUsed ==
    (/\ Resolved
     /\ manifest.file = "ok"
     /\ manifest.syntax
     /\ manifest.workspace.kind = "commands"
     /\ manifest.package.kind # "commands") =>
        resolved.parsed = Ok(manifest.workspace.commands)

\* C9: for a manifest with a package-scope commands table,
\* get_commands_from_str returns exactly that table, whatever the workspace
\* section holds.
C9_PackageTableWins ==
    (/\ Resolved
     /\ manifest.file = "ok"
     /\ manifest.syntax
     /\ manifest.package.kind = "commands") =>
        resolved.parsed = Ok(manifest.package.commands)

\* C10: for every executed entry the output is the label line of its name
\* (if and only if the Command Set has more than one entry), then the echo
\* of its command line, then the spawn of that same line; the labels are in
\* Command Set order.
C10_LabelEchoSpawnOrder ==
    /\ \A j \in 1..Len(out) :
          /\ out[j].kind = "spawn" =>
                 /\ j > 1
                 /\ out[j - 1].kind = "echo"
                 /\ out[j - 1].text = "> " \o out[j].text
          /\ out[j].kind = "echo" =>
                 (Len(commands) > 1 <=> (j > 1 /\ out[j - 1].kind = "label"))
          /\ out[j].kind = "label" =>
                 /\ Len(commands) > 1
                 /\ j < Len(out) => out[j + 1].kind = "echo"
    /\ Len(Texts("echo")) <= Len(commands)
    /\ Texts("echo") = [i \in 1..Len(Texts("echo")) |-> "> " \o LineOf(i)]
    /\ Len(commands) > 1 =>
           /\ Len(Texts("label")) \in {Len(Texts("echo")), Len(Texts("echo")) + 1}
           /\ Texts("label") =
                  [i \in 1..Len(Texts("label")) |-> "\n[" \o commands[i][1] \o "]"]

C10_Witness ==
    /\ Len(commands) = 2
    /\ Len(out) = 6
    /\ out[1] = Event("label", "\n[pretest]")
    /\ out[4] = Event("label", "\n[test]")
    /\ out[6].kind = "spawn"

C10_WitnessSingle ==
    /\ Len(commands) = 1
    /\ Len(out) = 2
    /\ out[2].kind = "spawn"

====
